---- MODULE Spec2Model ----
(***************************************************************************)
(* Model of the Adobe license monitor scripts                              *)
(*   src/adobe_license_monitor.py          (script "monitor")              *)
(*   src/refresh_adobe_license_monitor.py  (script "refresh")              *)
(* Strings are TLA+ strings; str.replace and str.strip are computed        *)
(* character by character as Python computes them.                         *)
(***************************************************************************)
EXTENDS Integers, Sequences, FiniteSets, TLC

VARIABLES
    script,        \* which of the two scripts runs: "monitor" or "refresh"
    tokenOutcome,  \* environment: what obtaining the bearer token yields
    pc,            \* position of the run
    page_index,    \* get_users_in_org: page_index
    users_list,    \* get_users_in_org: users_list
    attempt,       \* make_call: loop variable attempt (1..4)
    retry_wait,    \* make_call: retry_wait
    resp,          \* the last HTTP outcome of a page request
    callResult,    \* value returned by make_call: NoneVal or a body
    nreq,          \* requests issued for the current page (current make_call)
    allRetry,      \* every outcome so far of the current page was retryable
    sleeps,        \* sleeps since the last page request was answered
    gets,          \* page indices of the page GETs issued, in order
    served,        \* bodies of the 200 answers, in order
    allOk,         \* every page request so far was answered 200
    fetchFailed,   \* get_users_in_org left its loop on a failed request
    fetchDone,     \* get_users_in_org has returned
    slackPosts,    \* number of Slack webhook POSTs issued
    slackStatus,   \* status of the answer to the Slack POST (0: none)
    summary,       \* summary lines handed to send_slack_alert
    group,         \* SpecClean: the raw group string
    once,          \* SpecClean: the cleanup applied once
    twice,         \* SpecClean: the cleanup applied to its own output
    cpc,           \* SpecClean / SpecSum: position
    users,         \* SpecSum: the input list of users
    lines          \* SpecSum: the summary lines of summarize_licenses

vars == <<script, tokenOutcome, pc, page_index, users_list, attempt,
          retry_wait, resp, callResult, nreq, allRetry, sleeps, gets, served,
          allOk, fetchFailed, fetchDone, slackPosts, slackStatus, summary,
          group, once, twice, cpc, users, lines>>

runVars == <<script, tokenOutcome, pc, page_index, users_list, attempt,
             retry_wait, resp, callResult, nreq, allRetry, sleeps, gets,
             served, allOk, fetchFailed, fetchDone, slackPosts, slackStatus,
             summary>>

(***************************************************************************)
(* Bounds                                                                  *)
(***************************************************************************)
MaxPages == 2      \* page indices 0 .. MaxPages-1 are requested
MaxFragments == 3  \* a raw group string of SpecClean has 1..MaxFragments fragments
MaxUsers == 2      \* users in the input list of SpecSum
MaxGroups == 1     \* groups per user in SpecSum

(***************************************************************************)
(* Strings                                                                 *)
(***************************************************************************)
\* str.replace(old, ""): leftmost non-overlapping occurrences, one pass
RECURSIVE Replace(_, _)
Replace(s, old) ==
    IF Len(s) < Len(old) THEN s
    ELSE IF SubSeq(s, 1, Len(old)) = old
         THEN Replace(SubSeq(s, Len(old) + 1, Len(s)), old)
         ELSE SubSeq(s, 1, 1) \o Replace(SubSeq(s, 2, Len(s)), old)

Whitespace == {" ", "\t", "\n", "\r"}

RECURSIVE LStrip(_)
LStrip(s) ==
    IF Len(s) > 0 /\ SubSeq(s, 1, 1) \in Whitespace
    THEN LStrip(SubSeq(s, 2, Len(s)))
    ELSE s

RECURSIVE RStrip(_)
RStrip(s) ==
    IF Len(s) > 0 /\ SubSeq(s, Len(s), Len(s)) \in Whitespace
    THEN RStrip(SubSeq(s, 1, Len(s) - 1))
    ELSE s

\* str.strip()
Strip(s) == RStrip(LStrip(s))

\* the eight removals of summarize_licenses, in their order
Removals ==
    << "Default ", "configuration", " plan with 1TB", " - 100 GB",
       " - 1024 GB", "Single App", " DC", " 3D Collection Configuration" >>

RECURSIVE ReplaceChain(_, _)
ReplaceChain(s, i) ==
    IF i > Len(Removals) THEN s
    ELSE ReplaceChain(Replace(s, Removals[i]), i + 1)

\* cleaned_group of summarize_licenses (the same chain in both scripts)
CleanGroup(g) == Strip(ReplaceChain(g, 1))

(***************************************************************************)
(* SpecClean: the cleanup applied to bounded raw group strings             *)
(***************************************************************************)
Fragments ==
    { "Default ", "config", "uration", " DC", "Acrobat Pro", " ",
      "Defau", "lt Photoshop", " - 100 GB" }

RECURSIVE Concat(_)
Concat(fs) == IF fs = <<>> THEN "" ELSE Head(fs) \o Concat(Tail(fs))

RawGroups ==
    { Concat(fs) : fs \in UNION { [1..n -> Fragments] : n \in 1..MaxFragments } }

\* what make_call returns: None, or response.json()
NoneVal == [isNone |-> TRUE, users |-> <<>>, lastPage |-> FALSE]

RunIdle ==
    /\ script = "none" /\ tokenOutcome = "none" /\ pc = "idle"
    /\ page_index = 0 /\ users_list = <<>> /\ attempt = 0 /\ retry_wait = 0
    /\ resp = [kind |-> "none", status |-> 0, hkind |-> "absent", hval |-> 0]
    /\ callResult = NoneVal /\ nreq = 0 /\ allRetry = TRUE /\ sleeps = 0
    /\ gets = <<>> /\ served = <<>> /\ allOk = TRUE /\ fetchFailed = FALSE
    /\ fetchDone = FALSE
    /\ slackPosts = 0 /\ slackStatus = 0 /\ summary = <<>>

InitClean ==
    /\ RunIdle
    /\ group \in RawGroups
    /\ once = "" /\ twice = ""
    /\ cpc = "raw"
    /\ users = <<>> /\ lines = <<>>

CleanOnce ==
    /\ cpc = "raw"
    /\ once' = CleanGroup(group)
    /\ cpc' = "once"
    /\ UNCHANGED <<group, twice, users, lines>>
    /\ UNCHANGED runVars

CleanTwice ==
    /\ cpc = "once"
    /\ twice' = CleanGroup(once)
    /\ cpc' = "twice"
    /\ UNCHANGED <<group, once, users, lines>>
    /\ UNCHANGED runVars

NextClean == CleanOnce \/ CleanTwice

SpecClean == InitClean /\ [][NextClean]_vars

\* C5: the cleanup applied to its own output yields the output of one
\* application, for every raw group string
C5_Idempotent == cpc = "twice" => twice = once

(***************************************************************************)
(* summarize_licenses                                                      *)
(***************************************************************************)
\* EXCLUDED_GROUPS of refresh_adobe_license_monitor.py
EXCLUDED_GROUPS ==
    { "Default Acrobat Pro DC configuration_B90DF18-provisioning",
      "Default All Apps plan - 100 GB configuration_C9431CF-provisioning",
      "Default Photoshop - 100 GB configuration_0A61F1F-provisioning",
      "Default Audition - 1024 GB configuration_4A18C28-provisioning",
      "_product_admin_Custom fonts (VIP,VIPMP - A1406BFDEA1D8CDBEDEA)",
      "_admin_Default Custom fonts configuration",
      "Default Premiere Pro - 1024 GB configuration_E71BE78-provisioning",
      "Default Illustrator - 100 GB configuration_A69B937-provisioning",
      "Default Lightroom Single App plan with 1TB configuration_6FBBDC1-provisioning",
      "Acrobat Users",
      "Default Custom fonts configuration" }

\* license_mapping / LICENSE_MAPPING: product name -> total seats
LICENSE_MAPPING ==
    [ n \in { "Acrobat Pro", "All Apps plan", "Photoshop", "Audition",
              "Premiere Pro", "Illustrator", "Lightroom", "Substance" } |->
        CASE n = "Acrobat Pro"   -> 316
          [] n = "All Apps plan" -> 268
          [] n = "Photoshop"     -> 14
          [] n = "Audition"      -> 2
          [] n = "Premiere Pro"  -> 22
          [] n = "Illustrator"   -> 7
          [] n = "Lightroom"     -> 1
          [] n = "Substance"     -> 4 ]

\* license_mapping.get(license_name, "Unknown")
TotalOf(license_name) ==
    IF license_name \in DOMAIN LICENSE_MAPPING
    THEN [known |-> TRUE, seats |-> LICENSE_MAPPING[license_name]]
    ELSE [known |-> FALSE, seats |-> 0]

\* "if group in EXCLUDED_GROUPS: continue" exists in the refresh script only
Skipped(sc, g) == sc = "refresh" /\ g \in EXCLUDED_GROUPS

\* license_counts[cleaned_group] = license_counts.get(cleaned_group, 0) + 1
\* (a dict in insertion order, kept as a sequence of name/used pairs)
Bump(counts, name) ==
    IF \E i \in DOMAIN counts : counts[i].name = name
    THEN [ i \in DOMAIN counts |->
             IF counts[i].name = name
             THEN [counts[i] EXCEPT !.used = @ + 1]
             ELSE counts[i] ]
    ELSE Append(counts, [name |-> name, used |-> 1])

\* the inner loop over user.get('groups', [])
RECURSIVE CountGroups(_, _, _)
CountGroups(sc, gs, counts) ==
    IF gs = <<>> THEN counts
    ELSE CountGroups(sc, Tail(gs),
                     IF Skipped(sc, Head(gs)) THEN counts
                     ELSE Bump(counts, CleanGroup(Head(gs))))

\* the outer loop over users
RECURSIVE CountUsers(_, _, _)
CountUsers(sc, us, counts) ==
    IF us = <<>> THEN counts
    ELSE CountUsers(sc, Tail(us), CountGroups(sc, Head(us).groups, counts))

\* unit = "License" if license_name != "Adobe Stock Credits" else "Credits"
\* unit += "s" if used > 1 else ""
UnitLabel(license_name, used) ==
    (IF license_name # "Adobe Stock Credits" THEN "License" ELSE "Credits")
        \o (IF used > 1 THEN "s" ELSE "")

\* one entry of summary per item of license_counts, in its order
SummaryLines(counts) ==
    [ i \in DOMAIN counts |->
        [ name  |-> counts[i].name,
          used  |-> counts[i].used,
          total |-> TotalOf(counts[i].name),
          unit  |-> UnitLabel(counts[i].name, counts[i].used) ] ]

summarize_licenses(sc, us) == SummaryLines(CountUsers(sc, us, <<>>))

(***************************************************************************)
(* SpecSum: summarize_licenses of either script on bounded user lists      *)
(***************************************************************************)
GroupPool ==
    { "Default Acrobat Pro DC configuration",
      "Acrobat Pro DC",
      "Acrobat Users",
      "Default Photoshop - 100 GB configuration_0A61F1F-provisioning",
      "Default Adobe Stock Credits configuration" }

SeqsUpTo(S, n) == UNION { [1..k -> S] : k \in 0..n }

UserPool == { [groups |-> gs] : gs \in SeqsUpTo(GroupPool, MaxGroups) }

InitSum ==
    /\ RunIdle
    /\ group = "" /\ once = "" /\ twice = ""
    /\ cpc \in {"monitor", "refresh"}
    /\ users \in SeqsUpTo(UserPool, MaxUsers)
    /\ lines = <<>>

SummarizeMonitor ==
    /\ cpc = "monitor"
    /\ lines' = summarize_licenses("monitor", users)
    /\ cpc' = "summed"
    /\ UNCHANGED <<users, group, once, twice>>
    /\ UNCHANGED runVars

SummarizeRefresh ==
    /\ cpc = "refresh"
    /\ lines' = summarize_licenses("refresh", users)
    /\ cpc' = "summed"
    /\ UNCHANGED <<users, group, once, twice>>
    /\ UNCHANGED runVars

NextSum == SummarizeMonitor \/ SummarizeRefresh

SpecSum == InitSum /\ [][NextSum]_vars

\* the (user, group) memberships of the input list
Memberships ==
    { m \in (DOMAIN users) \X (1..MaxGroups + 1) :
        m[2] \in DOMAIN users[m[1]].groups }

RawOf(m) == users[m[1]].groups[m[2]]

\* memberships that count for a product: not excluded, cleaned name equal
CountedFor(name) ==
    { m \in Memberships :
        RawOf(m) \notin EXCLUDED_GROUPS /\ CleanGroup(RawOf(m)) = name }

\* C6: every summary line's used count is the number of non-excluded
\* memberships cleaning to its product, every such product has a line, and
\* excluded memberships count nowhere and produce no line
C6_CountsExcludeListed ==
    cpc = "summed" =>
        /\ \A i \in DOMAIN lines :
              lines[i].used = Cardinality(CountedFor(lines[i].name))
        /\ \A m \in Memberships :
              RawOf(m) \notin EXCLUDED_GROUPS =>
                  \E i \in DOMAIN lines : lines[i].name = CleanGroup(RawOf(m))

\* the singular unit word of a product
SingularUnit(name) ==
    IF name = "Adobe Stock Credits" THEN "Credit" ELSE "License"

\* C7: a line's unit label is the singular form for a used count of 1 and
\* the singular form plus one "s" for a larger count, for every product;
\* no line has a used count of 0
C7_UnitPluralization ==
    cpc = "summed" =>
        \A i \in DOMAIN lines :
            /\ lines[i].used >= 1
            /\ lines[i].used = 1 => lines[i].unit = SingularUnit(lines[i].name)
            /\ lines[i].used > 1 =>
                   lines[i].unit = SingularUnit(lines[i].name) \o "s"

(***************************************************************************)
(* The run of a script: token, paginated fetch, report                     *)
(***************************************************************************)
\* status codes make_call retries on
RETRYABLE == {429, 502, 503, 504}

\* status codes the User Management API answers with in the model
Statuses == {200, 401} \cup RETRYABLE

\* Retry-After of a retryable answer: absent, delay-seconds, or an HTTP-date
RetryAfterHeaders ==
    { [hkind |-> "absent", hval |-> 0],
      [hkind |-> "int",    hval |-> 0],
      [hkind |-> "int",    hval |-> 3],
      [hkind |-> "date",   hval |-> 0] }

NoHeader == [hkind |-> "absent", hval |-> 0]

\* randint(0, 5)
Jitter == 0..5

userA == [groups |-> <<"Default Acrobat Pro DC configuration">>]
userB == [groups |-> <<"Acrobat Users", "Default Adobe Stock Credits configuration">>]

\* the 'users' array of one page
PageUsers == { <<>>, <<userA>>, <<userB>> }

\* bodies the API can answer page p with; the organisation has at most
\* MaxPages pages, so the page MaxPages-1 is a last page
Bodies(p) ==
    { [users |-> us, lastPage |-> lp] :
        us \in PageUsers, lp \in {b \in BOOLEAN : b \/ p + 1 < MaxPages} }

JsonOf(body) ==
    [isNone |-> FALSE, users |-> body.users, lastPage |-> body.lastPage]

\* "if r:" - None is false, a body with its two keys is true
Truthy(r) == ~r.isNone

\* int(text of the header): defined for delay-seconds, ValueError otherwise
IntParses(h) == h.hkind # "date"

\* retry_wait = int(response.headers.get('Retry-After',
\*                                       (2 ** attempt) + randint(0, 5)))
RetryWait(h, att, j) == IF h.hkind = "int" THEN h.hval ELSE 2 ^ att + j

\* the attempts of "for attempt in range(1, 5)" after which a sleep follows
SleepsAfter(att) == att < 4

\* "page_index += 1"
NextPageIndex(p) == p + 1

\* a loop that stops after any answered page
LoopEndsAlways(body) == TRUE

\* "if data['lastPage']" / "if r['lastPage']": the loop ends on this page
LoopEnds(body) == body.lastPage

\* a report sent whatever was fetched
ShouldReportAlways(us) == TRUE

\* "if users:" of __main__
ShouldReport(us) == us # <<>>

Flatten(bodies) ==
    LET RECURSIVE F(_)
        F(bs) == IF bs = <<>> THEN <<>> ELSE Head(bs).users \o F(Tail(bs))
    IN F(bodies)

Init ==
    /\ script \in {"monitor", "refresh"}
    /\ tokenOutcome \in
          IF script = "monitor" THEN {"ok", "none"} ELSE {"ok", "none", "raise"}
    /\ pc = "start"
    /\ page_index = 0 /\ users_list = <<>> /\ attempt = 0 /\ retry_wait = 0
    /\ resp = [kind |-> "none", status |-> 0, hkind |-> "absent", hval |-> 0]
    /\ callResult = NoneVal /\ nreq = 0 /\ allRetry = TRUE /\ sleeps = 0
    /\ gets = <<>> /\ served = <<>> /\ allOk = TRUE /\ fetchFailed = FALSE
    /\ fetchDone = FALSE
    /\ slackPosts = 0 /\ slackStatus = 0 /\ summary = <<>>
    /\ group = "" /\ once = "" /\ twice = "" /\ cpc = "run"
    /\ users = <<>> /\ lines = <<>>

pureVars == <<group, once, twice, cpc, users, lines>>

\* monitor __main__: get_users_in_org() is entered without any token check
MonitorStart ==
    /\ pc = "start" /\ script = "monitor"
    /\ page_index' = 0 /\ users_list' = <<>>
    /\ pc' = "loop"
    /\ UNCHANGED <<script, tokenOutcome, attempt, retry_wait, resp, callResult,
                   nreq, allRetry, sleeps, gets, served, allOk, fetchFailed, fetchDone,
                   slackPosts, slackStatus, summary>>
    /\ UNCHANGED pureVars

\* refresh __main__: token = get_access_token(); if token: fetch, else stop
RefreshStart ==
    /\ pc = "start" /\ script = "refresh"
    /\ page_index' = 0 /\ users_list' = <<>>
    /\ pc' = CASE tokenOutcome = "ok"    -> "rfetch"
               [] tokenOutcome = "none"  -> "done"
               [] tokenOutcome = "raise" -> "crashed"
    /\ UNCHANGED <<script, tokenOutcome, attempt, retry_wait, resp, callResult,
                   nreq, allRetry, sleeps, gets, served, allOk, fetchFailed, fetchDone,
                   slackPosts, slackStatus, summary>>
    /\ UNCHANGED pureVars

\* make_call up to its loop: retry_wait = 0, headers, first attempt
MakeCallEnter ==
    /\ pc = "loop"
    /\ attempt' = 1 /\ retry_wait' = 0
    /\ nreq' = 0 /\ allRetry' = TRUE /\ sleeps' = 0
    /\ callResult' = NoneVal
    /\ pc' = "request"
    /\ UNCHANGED <<script, tokenOutcome, page_index, users_list, resp, gets,
                   served, allOk, fetchFailed, fetchDone, slackPosts, slackStatus, summary>>
    /\ UNCHANGED pureVars

\* one attempt of make_call: the request and the handling of its outcome
MakeCallRequest ==
    /\ pc = "request"
    /\ gets' = Append(gets, page_index)
    /\ nreq' = nreq + 1
    /\ sleeps' = 0
    /\ \/ \* requests.request raises
          /\ resp' = [kind |-> "exc", status |-> 0, hkind |-> "absent", hval |-> 0]
          /\ callResult' = NoneVal /\ pc' = "ret"
          /\ allRetry' = FALSE /\ allOk' = FALSE
          /\ UNCHANGED <<retry_wait, served>>
       \/ \* 200: return response.json()
          \E body \in Bodies(page_index) :
            /\ resp' = [kind |-> "http", status |-> 200, hkind |-> "absent", hval |-> 0]
            /\ callResult' = JsonOf(body) /\ pc' = "ret"
            /\ served' = Append(served, body)
            /\ allRetry' = FALSE
            /\ UNCHANGED <<retry_wait, allOk>>
       \/ \* 429, 502, 503, 504
          \E st \in RETRYABLE, h \in RetryAfterHeaders, j \in Jitter :
            /\ resp' = [kind |-> "http", status |-> st, hkind |-> h.hkind, hval |-> h.hval]
            /\ allOk' = FALSE
            /\ IF ~IntParses(h)
               THEN \* ValueError inside the try: except Exception, return None
                    /\ callResult' = NoneVal /\ pc' = "ret"
                    /\ UNCHANGED retry_wait
               ELSE /\ retry_wait' = RetryWait(h, attempt, j)
                    /\ IF SleepsAfter(attempt)
                       THEN pc' = "sleep" /\ UNCHANGED callResult
                       ELSE \* the loop is exhausted: return None
                            callResult' = NoneVal /\ pc' = "ret"
            /\ UNCHANGED <<allRetry, served>>
       \/ \* any other status: return None
          \E st \in Statuses \ ({200} \cup RETRYABLE) :
            /\ resp' = [kind |-> "http", status |-> st, hkind |-> "absent", hval |-> 0]
            /\ callResult' = NoneVal /\ pc' = "ret"
            /\ allRetry' = FALSE /\ allOk' = FALSE
            /\ UNCHANGED <<retry_wait, served>>
    /\ UNCHANGED <<script, tokenOutcome, page_index, users_list, attempt,
                   fetchFailed, fetchDone, slackPosts, slackStatus, summary>>
    /\ UNCHANGED pureVars

\* sleep(retry_wait), then the next attempt
Sleep ==
    /\ pc = "sleep"
    /\ sleeps' = sleeps + 1
    /\ attempt' = attempt + 1
    /\ pc' = "request"
    /\ UNCHANGED <<script, tokenOutcome, page_index, users_list, retry_wait,
                   resp, callResult, nreq, allRetry, gets, served, allOk,
                   fetchFailed, fetchDone, slackPosts, slackStatus, summary>>
    /\ UNCHANGED pureVars

\* monitor get_users_in_org: the loop body after make_call returned
FetchStep ==
    /\ pc = "ret"
    /\ IF Truthy(callResult)
       THEN /\ users_list' = users_list \o callResult.users
            /\ IF LoopEnds(callResult)
               THEN pc' = "main" /\ fetchDone' = TRUE /\ UNCHANGED page_index
               ELSE /\ pc' = "loop" /\ page_index' = NextPageIndex(page_index)
                    /\ UNCHANGED fetchDone
            /\ UNCHANGED fetchFailed
       ELSE /\ fetchFailed' = TRUE /\ fetchDone' = TRUE
            /\ pc' = "main"
            /\ UNCHANGED <<users_list, page_index>>
    /\ UNCHANGED <<script, tokenOutcome, attempt, retry_wait, resp, callResult,
                   nreq, allRetry, sleeps, gets, served, allOk, slackPosts,
                   slackStatus, summary>>
    /\ UNCHANGED pureVars

\* refresh get_users_in_org: one iteration, a single requests.get per page
RefreshFetch ==
    /\ pc = "rfetch"
    /\ gets' = Append(gets, page_index)
    /\ nreq' = 1
    /\ \/ \* requests.get raises: nothing catches it
          /\ resp' = [kind |-> "exc", status |-> 0, hkind |-> "absent", hval |-> 0]
          /\ pc' = "crashed" /\ allOk' = FALSE
          /\ UNCHANGED <<users_list, page_index, served, fetchFailed, fetchDone>>
       \/ \E body \in Bodies(page_index) :
            /\ resp' = [kind |-> "http", status |-> 200, hkind |-> "absent", hval |-> 0]
            /\ users_list' = users_list \o body.users
            /\ served' = Append(served, body)
            /\ IF LoopEnds(body)
               THEN pc' = "main" /\ fetchDone' = TRUE /\ UNCHANGED page_index
               ELSE /\ pc' = "rfetch" /\ page_index' = NextPageIndex(page_index)
                    /\ UNCHANGED fetchDone
            /\ UNCHANGED <<allOk, fetchFailed>>
       \/ \E st \in Statuses \ {200}, h \in RetryAfterHeaders :
            /\ st \in RETRYABLE \/ h = NoHeader
            /\ resp' = [kind |-> "http", status |-> st, hkind |-> h.hkind, hval |-> h.hval]
            /\ fetchFailed' = TRUE /\ fetchDone' = TRUE /\ allOk' = FALSE
            /\ pc' = "main"
            /\ UNCHANGED <<users_list, page_index, served>>
    /\ UNCHANGED <<script, tokenOutcome, attempt, retry_wait, callResult,
                   allRetry, sleeps, slackPosts, slackStatus, summary>>
    /\ UNCHANGED pureVars

\* __main__ after the fetch: "if users:" summarize, else "No user data"
Report ==
    /\ pc = "main"
    /\ IF ShouldReport(users_list)
       THEN /\ summary' = summarize_licenses(script, users_list)
            /\ pc' = "slack"
       ELSE /\ pc' = "done"
            /\ UNCHANGED summary
    /\ UNCHANGED <<script, tokenOutcome, page_index, users_list, attempt,
                   retry_wait, resp, callResult, nreq, allRetry, sleeps, gets,
                   served, allOk, fetchFailed, fetchDone, slackPosts, slackStatus>>
    /\ UNCHANGED pureVars

\* send_slack_alert: one requests.post, its status only logged
SendSlackAlert ==
    /\ pc = "slack"
    /\ slackPosts' = slackPosts + 1
    /\ \/ \E st \in {200, 404, 500} : slackStatus' = st /\ pc' = "done"
       \/ \* requests.post raises: nothing catches it
          slackStatus' = 0 /\ pc' = "crashed"
    /\ UNCHANGED <<script, tokenOutcome, page_index, users_list, attempt,
                   retry_wait, resp, callResult, nreq, allRetry, sleeps, gets,
                   served, allOk, fetchFailed, fetchDone, summary>>
    /\ UNCHANGED pureVars

Next ==
    \/ MonitorStart
    \/ RefreshStart
    \/ MakeCallEnter
    \/ MakeCallRequest
    \/ Sleep
    \/ FetchStep
    \/ RefreshFetch
    \/ Report
    \/ SendSlackAlert

Spec == Init /\ [][Next]_vars

TypeOK ==
    /\ pc \in {"start", "loop", "request", "sleep", "ret", "rfetch", "main",
               "slack", "done", "crashed"}
    /\ page_index \in 0..(MaxPages - 1)
    /\ attempt \in 0..4
    /\ nreq \in 0..4

\* C1: in the monitor script, a fetch that ended on a failed page request has
\* returned an empty list, and no Slack POST is issued in that run
C1_FailureReturnsNothing ==
    (script = "monitor" /\ fetchDone /\ fetchFailed) =>
        (users_list = <<>> /\ slackPosts = 0)

\* C2: with every page request answered 200, the page indices requested are
\* 0, 1, 2, ... once each in order; once the fetch has returned, the last
\* answer is the first one with lastPage true and the returned list is the
\* concatenation of the users of the answered pages
C2_PagesInOrder ==
    (allOk /\ gets # <<>>) =>
        /\ gets = [i \in 1..Len(gets) |-> i - 1]
        /\ \A i \in 1..Len(served) : served[i].lastPage => i = Len(gets)
        /\ fetchDone =>
              /\ Len(served) = Len(gets)
              /\ served[Len(served)].lastPage
              /\ \A i \in 1..(Len(served) - 1) : ~served[i].lastPage
              /\ users_list = Flatten(served)

\* two pages fetched by all-200 answers, each with a user
C2_Witness ==
    /\ allOk /\ fetchDone
    /\ Len(served) = 2
    /\ users_list = <<userB, userA>>

\* C3: a make_call whose answers were all retryable returns None after
\* exactly 4 requests and never issues a 5th; a 200 on attempt k ends the
\* call after k requests with the body returned
C3_FourAttempts ==
    script = "monitor" =>
        /\ nreq <= 4
        /\ (pc = "ret" /\ allRetry) => (nreq = 4 /\ callResult = NoneVal)
        /\ (pc = "ret" /\ resp.status = 200) =>
              /\ nreq = attempt
              /\ callResult = JsonOf(served[Len(served)])

\* C4: in the refresh script, a fetch that ended on a 429/502/503/504 answer
\* has requested that page 4 times
C4_RefreshRetries ==
    (script = "refresh" /\ fetchDone /\ resp.kind = "http"
        /\ resp.status \in RETRYABLE) => nreq = 4

\* C8: without a bearer token no page GET and no Slack POST is issued
C8_NoTokenNoRequests ==
    tokenOutcome # "ok" => (gets = <<>> /\ slackPosts = 0)

\* C9: at most one Slack POST per run, issued only after the fetch has
\* returned a non-empty list; the run ends right after it, and ends the same
\* way whatever status the POST is answered with
C9_AtMostOneSlackPost ==
    /\ slackPosts <= 1
    /\ slackPosts = 1 =>
          /\ fetchDone
          /\ users_list # <<>>
          /\ pc \in {"done", "crashed"}
    /\ slackStatus # 0 => (slackPosts = 1 /\ pc = "done")

\* a Slack POST answered with a non-200 status, the run over
C9_Witness ==
    /\ slackPosts = 1 /\ slackStatus = 500 /\ pc = "done"
    /\ users_list # <<>>

\* C10: a retryable answer on attempt 1..3 is followed by exactly one sleep,
\* of the Retry-After value when the answer carries one and of
\* 2^k .. 2^k + 5 otherwise; no sleep follows the answer make_call returns on
C10_SleepPerRetry ==
    script = "monitor" =>
        /\ (pc = "ret" /\ resp.kind = "http" /\ resp.status \in RETRYABLE) =>
              attempt = 4
        /\ pc = "sleep" =>
              /\ attempt \in 1..3 /\ resp.status \in RETRYABLE /\ sleeps = 0
              /\ IF resp.hkind # "absent"
                 THEN resp.hkind = "int" /\ retry_wait = resp.hval
                 ELSE retry_wait \in (2 ^ attempt)..(2 ^ attempt + 5)
        /\ (pc = "request" /\ attempt > 1) => sleeps = 1
        /\ pc = "ret" => sleeps = 0

====
